---- MODULE Spec2Model ----
(***************************************************************************)
(* A model of humanfriendly.case (CaseInsensitiveKey, CaseInsensitiveDict) *)
(* and of humanfriendly.decorators (cached).                               *)
(*                                                                         *)
(* Python values are modelled as follows.                                  *)
(*   - a str or bytes value is a record [t, s, n] whose t is "str" or      *)
(*     "bytes" and whose s is the sequence of its (ASCII) characters;      *)
(*   - an int value is a record with t = "int" and n the number;           *)
(*   - a CaseInsensitiveKey object is a record [wrapped, normalized];      *)
(*   - the OrderedDict `wrapped` is the sequence of its entries            *)
(*     [key, val] in iteration order.                                      *)
(***************************************************************************)
EXTENDS Integers, Sequences, FiniteSets, TLC

VARIABLES
    family,     \* the keys this run calls the methods with
    wrapped,    \* CaseInsensitiveDict.wrapped: the OrderedDict of the observed map
    last,       \* the last operation called on the map, its arguments and its outcome
    fattr,      \* the cached_results attribute of the decorated function itself
    wrappers,   \* the wrappers cached() has returned: [target, attr], in order of creation
    counter,    \* the invocations of the decorated function so far
    log,        \* every call so far, of a wrapper (w > 0) or of the function (w = 0)
    ncalls      \* the calls of a wrapper made from outside so far

dvars == <<family, wrapped, last>>
cvars == <<fattr, wrappers, counter, log, ncalls>>
vars == <<family, wrapped, last, fattr, wrappers, counter, log, ncalls>>

(***************************************************************************)
(* Bounds of the model.                                                    *)
(***************************************************************************)
MaxKeys == 3        \* length of the iterable handed to fromkeys
MaxItems == 2       \* positional (key, value) pairs handed to the constructor
MaxKw == 1          \* named pairs handed to the constructor
MaxWrappers == 2    \* wrappers created by cached()
MaxCalls == 3       \* calls of a wrapper made from outside

(***************************************************************************)
(* Python values.                                                          *)
(***************************************************************************)
PyStr(s) == [t |-> "str", s |-> s, n |-> 0]
PyBytes(s) == [t |-> "bytes", s |-> s, n |-> 0]
PyInt(n) == [t |-> "int", s |-> << >>, n |-> n]

None == "None"
NoKey == [t |-> "none", s |-> << >>, n |-> 0]

\* The keys the methods are called with: a run of the program draws its keys
\* from one of these families.
KeyFamilies ==
    { {PyStr(<<"B">>), PyStr(<<"b">>), PyStr(<<"a">>), PyStr(<<"A">>), PyStr(<<"C">>),
       PyInt(42)},
      {PyStr(<<"a">>), PyBytes(<<"a">>), PyBytes(<<"A">>), PyStr(<<"H", "i">>),
       PyStr(<<"h", "I">>)} }

\* The values stored in the map.
Values == {"x", "y"}

\* The keys and names a constructor call is given.
ItemKeys == {PyStr(<<"A">>), PyStr(<<"a">>), PyStr(<<"B">>), PyInt(42),
             PyBytes(<<"A">>), PyBytes(<<"a">>)}
KwNames == {PyStr(<<"a">>), PyStr(<<"A">>), PyStr(<<"b">>)}

(***************************************************************************)
(* str.lower() and bytes.lower() on ASCII text, and hash().                *)
(***************************************************************************)
UpperChars == <<"A", "B", "C", "D", "E", "F", "G", "H", "I", "J", "K", "L", "M",
                "N", "O", "P", "Q", "R", "S", "T", "U", "V", "W", "X", "Y", "Z">>
LowerChars == <<"a", "b", "c", "d", "e", "f", "g", "h", "i", "j", "k", "l", "m",
                "n", "o", "p", "q", "r", "s", "t", "u", "v", "w", "x", "y", "z">>

UpperSet == {UpperChars[i] : i \in 1..Len(UpperChars)}
LowerSet == {LowerChars[i] : i \in 1..Len(LowerChars)}
UpperIndex == [c \in UpperSet |-> CHOOSE i \in 1..Len(UpperChars) : UpperChars[i] = c]
LowerIndex == [c \in LowerSet |-> CHOOSE i \in 1..Len(LowerChars) : LowerChars[i] = c]

\* The lowercase form of one ASCII character.
lower_char(c) == IF c \in UpperSet THEN LowerChars[UpperIndex[c]] ELSE c

\* ord() of an ASCII letter; other characters are not used by the model.
ord(c) ==
    IF c \in UpperSet THEN 64 + UpperIndex[c]
    ELSE IF c \in LowerSet THEN 96 + LowerIndex[c]
    ELSE 0

\* Only str and bytes have a lower() method.
has_lower(value) == value.t \in {"str", "bytes"}

lower(value) == [t |-> value.t, s |-> [i \in 1..Len(value.s) |-> lower_char(value.s[i])], n |-> value.n]

RECURSIVE sum_ord(_)
sum_ord(s) == IF s = << >> THEN 0 ELSE ord(Head(s)) + sum_ord(Tail(s))

\* hash() of a str or bytes value: a function of its characters alone
\* (CPython hashes "a" and b"a" alike), and not injective.
py_hash(value) == sum_ord(value.s)

(***************************************************************************)
(* class CaseInsensitiveKey                                                *)
(***************************************************************************)
\* __init__: the value and its lowercased form (value.lower() exists only
\* for str and bytes: for any other value __init__ raises AttributeError).
CaseInsensitiveKey(value) == [wrapped |-> value, normalized |-> lower(value)]

CaseInsensitiveKey_raises(value) == ~has_lower(value)

isinstance_CaseInsensitiveKey(x) == DOMAIN x = {"wrapped", "normalized"}

\* A __hash__ of the string as given.
CaseInsensitiveKey_hash_wrapped(self) == py_hash(self.wrapped)

CaseInsensitiveKey_hash(self) == py_hash(self.normalized)

\* An __eq__ that compares the strings as given.
CaseInsensitiveKey_eq_wrapped(self, other) ==
    IF isinstance_CaseInsensitiveKey(other)
    THEN self.wrapped = other.wrapped
    ELSE FALSE

\* An __eq__ that lowercases a plain string and compares with it.
CaseInsensitiveKey_eq_coerces(self, other) ==
    IF isinstance_CaseInsensitiveKey(other)
    THEN self.normalized = other.normalized
    ELSE has_lower(other) /\ self.normalized = lower(other)

CaseInsensitiveKey_eq(self, other) ==
    IF isinstance_CaseInsensitiveKey(other)
    THEN self.normalized = other.normalized
    ELSE FALSE

(***************************************************************************)
(* collections.OrderedDict, as CaseInsensitiveDict uses it.  A lookup      *)
(* finds the entry whose key has the probe's hash and equals the probe.    *)
(***************************************************************************)
od_match(stored, probe) ==
    /\ CaseInsensitiveKey_hash(stored) = CaseInsensitiveKey_hash(probe)
    /\ CaseInsensitiveKey_eq(stored, probe)

od_index(od, key) ==
    IF \E i \in 1..Len(od) : od_match(od[i].key, key)
    THEN CHOOSE i \in 1..Len(od) :
            /\ od_match(od[i].key, key)
            /\ \A j \in 1..(i - 1) : ~od_match(od[j].key, key)
    ELSE 0

od_remove(od, i) == [j \in 1..(Len(od) - 1) |-> IF j < i THEN od[j] ELSE od[j + 1]]

\* od[key] = val: an existing entry keeps its key object and its position.
od_setitem(od, key, val) ==
    LET i == od_index(od, key) IN
    IF i = 0
    THEN Append(od, [key |-> key, val |-> val])
    ELSE [od EXCEPT ![i].val = val]

\* del od[key], for a key that is present.
od_delitem(od, key) == od_remove(od, od_index(od, key))

\* od.move_to_end(key, last), for a key that is present.
od_move_to_end(od, key, lastflag) ==
    LET i == od_index(od, key) IN
    IF lastflag
    THEN Append(od_remove(od, i), od[i])
    ELSE <<od[i]>> \o od_remove(od, i)

(***************************************************************************)
(* class CaseInsensitiveDict.  Every method is an operator from the        *)
(* OrderedDict before the call to the outcome of the call:                 *)
(* [w: the OrderedDict after it, err: the exception raised or None,        *)
(*  res: the value returned, rkey: the key returned].                      *)
(***************************************************************************)
Return(w, rkey, res) == [w |-> w, err |-> None, res |-> res, rkey |-> rkey]
Raise(w, err) == [w |-> w, err |-> err, res |-> None, rkey |-> NoKey]

map_key(k) ==
    IF k.t = "str" THEN CaseInsensitiveKey(k)
    ELSE IF k.t = "bytes" THEN CaseInsensitiveKey(k)
    ELSE k

map_key_typed(k) == CaseInsensitiveKey(k)

\* map_key_typed wraps every key: it raises what CaseInsensitiveKey raises.
map_key_typed_raises(k) == CaseInsensitiveKey_raises(k)

\* An unmap_key that hands back the lowercased form.
unmap_key_normalized(k) == k.normalized

unmap_key(k) == k.wrapped

getitem(w, key) ==
    IF map_key_typed_raises(key) THEN Raise(w, "AttributeError")
    ELSE LET i == od_index(w, map_key_typed(key)) IN
         IF i = 0 THEN Raise(w, "KeyError") ELSE Return(w, NoKey, w[i].val)

\* A __setitem__ that drops the entry it overwrites and adds a new one.
setitem_readd(w, key, val) ==
    IF map_key_typed_raises(key) THEN Raise(w, "AttributeError")
    ELSE LET k == map_key_typed(key)
             i == od_index(w, k)
         IN Return(od_setitem(IF i = 0 THEN w ELSE od_remove(w, i), k, val), NoKey, None)

setitem(w, key, val) ==
    IF map_key_typed_raises(key) THEN Raise(w, "AttributeError")
    ELSE Return(od_setitem(w, map_key_typed(key), val), NoKey, None)

\* A __delitem__ that has dropped the newest entry when it finds the key missing.
delitem_drops_on_miss(w, key) ==
    IF map_key_typed_raises(key) THEN Raise(w, "AttributeError")
    ELSE IF od_index(w, map_key_typed(key)) = 0
         THEN Raise(IF w = << >> THEN w ELSE od_remove(w, Len(w)), "KeyError")
    ELSE Return(od_delitem(w, map_key_typed(key)), NoKey, None)

\* A __delitem__ that removes the newest entry instead of the named one.
delitem_newest(w, key) ==
    IF map_key_typed_raises(key) THEN Raise(w, "AttributeError")
    ELSE IF od_index(w, map_key_typed(key)) = 0 THEN Raise(w, "KeyError")
    ELSE Return(od_remove(w, Len(w)), NoKey, None)

delitem(w, key) ==
    IF map_key_typed_raises(key) THEN Raise(w, "AttributeError")
    ELSE IF od_index(w, map_key_typed(key)) = 0 THEN Raise(w, "KeyError")
    ELSE Return(od_delitem(w, map_key_typed(key)), NoKey, None)

\* A popitem that ignores its flag and removes the last entry.
popitem_last(w, lastflag) ==
    IF w = << >> THEN Raise(w, "KeyError")
    ELSE Return(od_remove(w, Len(w)), unmap_key(w[Len(w)].key), w[Len(w)].val)

popitem(w, lastflag) ==
    IF w = << >> THEN Raise(w, "KeyError")
    ELSE LET i == IF lastflag THEN Len(w) ELSE 1 IN
         Return(od_remove(w, i), unmap_key(w[i].key), w[i].val)

move_to_end(w, key, lastflag) ==
    IF map_key_typed_raises(key) THEN Raise(w, "AttributeError")
    ELSE IF od_index(w, map_key_typed(key)) = 0 THEN Raise(w, "KeyError")
    ELSE Return(od_move_to_end(w, map_key_typed(key), lastflag), NoKey, None)

len(w) == Len(w)

\* __iter__: the keys, unmapped, in the order of the OrderedDict.
iter(w) == [i \in 1..Len(w) |-> unmap_key(w[i].key)]

\* MutableMapping.update over a sequence of (key, value) pairs: self[key] = value
\* for each pair in order, stopping at the first one that raises.
RECURSIVE update(_, _)
update(w, items) ==
    IF items = << >> THEN Return(w, NoKey, None)
    ELSE LET r == setitem(w, Head(items).key, Head(items).val) IN
         IF r.err # None THEN r ELSE update(r.w, Tail(items))

\* __init__(other, **kw): an empty OrderedDict, updated with the pairs of
\* other and then with the named pairs.
\* An __init__ that applies the named pairs before the pairs of other.
init_kw_first(items, kw) == update(<< >>, kw \o items)

init(items, kw) == update(<< >>, items \o kw)

\* fromkeys(iterable, value): an empty map, then res[key] = value for each key.
fromkeys(iterable, value) ==
    update(<< >>, [i \in 1..Len(iterable) |-> [key |-> iterable[i], val |-> value]])

(***************************************************************************)
(* The state machine: one map is observed from its creation on.  It is     *)
(* created by CaseInsensitiveDict() (Init), by CaseInsensitiveDict(other,  *)
(* **kw) (Construct) or by CaseInsensitiveDict.fromkeys (FromKeys); a      *)
(* constructor call that raises creates no map and leaves the observed one *)
(* as it is.  Every other action is one method call on the observed map.   *)
(***************************************************************************)
SeqsUpTo(S, n) == UNION {[1..m -> S] : m \in 0..n}

Items(keys) == [key : ItemKeys \cap keys, val : Values]
KwItems(keys) == [key : KwNames \cap keys, val : Values]

\* **kw is a dict of its own: no name occurs twice.
IsKw(kw) == \A i, j \in 1..Len(kw) : i # j => kw[i].key # kw[j].key

Called(op, key, val, flag, items, kw, r, reins) ==
    [op |-> op, key |-> key, val |-> val, flag |-> flag, items |-> items, kw |-> kw,
     err |-> r.err, res |-> r.res, rkey |-> r.rkey, reins |-> reins]

DictInit ==
    /\ family \in KeyFamilies
    /\ wrapped = init(<< >>, << >>).w
    /\ last = Called("init", NoKey, None, FALSE, << >>, << >>, init(<< >>, << >>), FALSE)

Construct(items, kw) ==
    \E r \in {init(items, kw)} :
    /\ wrapped' = IF r.err = None THEN r.w ELSE wrapped
    /\ last' = Called("construct", NoKey, None, FALSE, items, kw, r, FALSE)
    /\ UNCHANGED <<family, cvars>>

FromKeys(iterable, value) ==
    \E r \in {fromkeys(iterable, value)} :
    /\ wrapped' = IF r.err = None THEN r.w ELSE wrapped
    /\ last' = Called("fromkeys", NoKey, value, FALSE,
                      [i \in 1..Len(iterable) |-> [key |-> iterable[i], val |-> value]],
                      << >>, r, FALSE)
    /\ UNCHANGED <<family, cvars>>

GetItem(key) ==
    \E r \in {getitem(wrapped, key)} :
    /\ wrapped' = r.w
    /\ last' = Called("get", key, None, FALSE, << >>, << >>, r, FALSE)
    /\ UNCHANGED <<family, cvars>>

\* reins: this call reinserts the key that the call before it deleted.
SetItem(key, val) ==
    \E r \in {setitem(wrapped, key, val)} :
    /\ wrapped' = r.w
    /\ last' = Called("set", key, val, FALSE, << >>, << >>, r,
                      /\ last.op = "delete"
                      /\ last.err = None
                      /\ r.err = None
                      /\ lower(last.key) = lower(key))
    /\ UNCHANGED <<family, cvars>>

DelItem(key) ==
    \E r \in {delitem(wrapped, key)} :
    /\ wrapped' = r.w
    /\ last' = Called("delete", key, None, FALSE, << >>, << >>, r, FALSE)
    /\ UNCHANGED <<family, cvars>>

PopItem(lastflag) ==
    \E r \in {popitem(wrapped, lastflag)} :
    /\ wrapped' = r.w
    /\ last' = Called("popitem", NoKey, None, lastflag, << >>, << >>, r, FALSE)
    /\ UNCHANGED <<family, cvars>>

MoveToEnd(key, lastflag) ==
    \E r \in {move_to_end(wrapped, key, lastflag)} :
    /\ wrapped' = r.w
    /\ last' = Called("move_to_end", key, None, lastflag, << >>, << >>, r, FALSE)
    /\ UNCHANGED <<family, cvars>>

(***************************************************************************)
(* humanfriendly.decorators.cached.  A value is a record [k, n]: an int    *)
(* (k = "int"), None, some other object, or one of the two markers Absent  *)
(* (the attribute is not set) and Raised (the call raised an exception).   *)
(***************************************************************************)
IntVal(n) == [k |-> "int", n |-> n]
NoneVal == [k |-> "none", n |-> 0]
OtherVal == [k |-> "other", n |-> 0]
Absent == [k |-> "absent", n |-> 0]
Raised == [k |-> "raised", n |-> 0]

\* What one invocation of the decorated function does: it counts the
\* invocation and then raises, returns None or returns the count.
Outcomes == {"raise", "none", "count"}

function(cnt, o) ==
    [counter |-> cnt + 1,
     res |-> IF o = "raise" THEN Raised ELSE IF o = "none" THEN NoneVal ELSE IntVal(cnt + 1)]

Entry(w, res, invoked) == [w |-> w, res |-> res, invoked |-> invoked]

\* cached(function): functools.wraps copies the attributes of the function
\* (its __dict__) to the new wrapper.
cached(ws, fa, target) ==
    Append(ws, [target |-> target, attr |-> IF target = 0 THEN fa ELSE ws[target].attr])

RECURSIVE wrapper(_, _, _, _, _)

\* A wrapper that returns the result without storing it.
wrapper_forgets(ws, cnt, lg, w, o) ==
    IF ws[w].attr # Absent
    THEN [ws |-> ws, counter |-> cnt, res |-> ws[w].attr,
          log |-> Append(lg, Entry(w, ws[w].attr, FALSE))]
    ELSE LET r == IF ws[w].target = 0
                  THEN LET f == function(cnt, o) IN
                       [ws |-> ws, counter |-> f.counter, res |-> f.res,
                        log |-> Append(lg, Entry(0, f.res, TRUE))]
                  ELSE wrapper(ws, cnt, lg, ws[w].target, o)
         IN [r EXCEPT !.log = Append(r.log, Entry(w, r.res, TRUE))]

\* A wrapper that stores None when the function raises.
wrapper_caches_failure(ws, cnt, lg, w, o) ==
    IF ws[w].attr # Absent
    THEN [ws |-> ws, counter |-> cnt, res |-> ws[w].attr,
          log |-> Append(lg, Entry(w, ws[w].attr, FALSE))]
    ELSE LET r == IF ws[w].target = 0
                  THEN LET f == function(cnt, o) IN
                       [ws |-> ws, counter |-> f.counter, res |-> f.res,
                        log |-> Append(lg, Entry(0, f.res, TRUE))]
                  ELSE wrapper(ws, cnt, lg, ws[w].target, o)
         IN [r EXCEPT !.ws[w].attr = IF r.res = Raised THEN NoneVal ELSE r.res,
                      !.log = Append(r.log, Entry(w, r.res, TRUE))]

\* A wrapper that takes a stored None for no result yet.
wrapper_none_is_empty(ws, cnt, lg, w, o) ==
    IF ws[w].attr # Absent /\ ws[w].attr # NoneVal
    THEN [ws |-> ws, counter |-> cnt, res |-> ws[w].attr,
          log |-> Append(lg, Entry(w, ws[w].attr, FALSE))]
    ELSE LET r == IF ws[w].target = 0
                  THEN LET f == function(cnt, o) IN
                       [ws |-> ws, counter |-> f.counter, res |-> f.res,
                        log |-> Append(lg, Entry(0, f.res, TRUE))]
                  ELSE wrapper(ws, cnt, lg, ws[w].target, o)
         IN IF r.res = Raised
            THEN [r EXCEPT !.log = Append(r.log, Entry(w, r.res, TRUE))]
            ELSE [r EXCEPT !.ws[w].attr = r.res,
                           !.log = Append(r.log, Entry(w, r.res, TRUE))]

\* wrapper(): the stored result if the wrapper has the attribute; otherwise
\* the function is called, and its result is stored unless it raises.
wrapper(ws, cnt, lg, w, o) ==
    IF ws[w].attr # Absent
    THEN [ws |-> ws, counter |-> cnt, res |-> ws[w].attr,
          log |-> Append(lg, Entry(w, ws[w].attr, FALSE))]
    ELSE LET r == IF ws[w].target = 0
                  THEN LET f == function(cnt, o) IN
                       [ws |-> ws, counter |-> f.counter, res |-> f.res,
                        log |-> Append(lg, Entry(0, f.res, TRUE))]
                  ELSE wrapper(ws, cnt, lg, ws[w].target, o)
         IN IF r.res = Raised
            THEN [r EXCEPT !.log = Append(r.log, Entry(w, r.res, TRUE))]
            ELSE [r EXCEPT !.ws[w].attr = r.res,
                           !.log = Append(r.log, Entry(w, r.res, TRUE))]

\* The decorated function is a plain function, or one that carries a
\* cached_results attribute of its own.
CachedInit ==
    /\ fattr \in {Absent, OtherVal}
    /\ wrappers = << >>
    /\ counter = 0
    /\ log = << >>
    /\ ncalls = 0

\* cached(target): target 0 is the function, target t > 0 the t-th wrapper.
Decorate(target) ==
    /\ Len(wrappers) < MaxWrappers
    /\ wrappers' = cached(wrappers, fattr, target)
    /\ UNCHANGED <<fattr, counter, log, ncalls, dvars>>

\* A call of the w-th wrapper from outside; o is what the function does if
\* the call reaches it.
Call(w, o) ==
    \E r \in {wrapper(wrappers, counter, log, w, o)} :
    /\ ncalls < MaxCalls
    /\ ncalls' = ncalls + 1
    /\ wrappers' = r.ws
    /\ counter' = r.counter
    /\ log' = r.log
    /\ UNCHANGED <<fattr, dvars>>

(***************************************************************************)
(* The two components do not interact: each has its own specification, in  *)
(* which the other one stays as created.                                   *)
(***************************************************************************)
Init ==
    /\ DictInit
    /\ fattr = Absent /\ wrappers = << >> /\ counter = 0 /\ log = << >> /\ ncalls = 0

Next ==
    \/ /\ last.op = "init"
       /\ \E items \in SeqsUpTo(Items(family), MaxItems),
             kw \in SeqsUpTo(KwItems(family), MaxKw) :
             IsKw(kw) /\ Construct(items, kw)
    \/ /\ last.op = "init"
       /\ \E iterable \in SeqsUpTo(family, MaxKeys), value \in Values \cup {None} :
             FromKeys(iterable, value)
    \/ \E key \in family : GetItem(key)
    \/ \E key \in family, val \in Values : SetItem(key, val)
    \/ \E key \in family : DelItem(key)
    \/ \E lastflag \in BOOLEAN : PopItem(lastflag)
    \/ \E key \in family, lastflag \in BOOLEAN : MoveToEnd(key, lastflag)

Spec == Init /\ [][Next]_vars

CachedSpecInit ==
    /\ CachedInit
    /\ family = {}
    /\ wrapped = << >>
    /\ last = Called("init", NoKey, None, FALSE, << >>, << >>, init(<< >>, << >>), FALSE)

CachedNext ==
    \/ \E target \in 0..Len(wrappers) : Decorate(target)
    \/ \E w \in 1..Len(wrappers), o \in Outcomes : Call(w, o)

CachedSpec == CachedSpecInit /\ [][CachedNext]_vars

(***************************************************************************)
(* Helpers of the properties.                                              *)
(***************************************************************************)
\* The normalized key representation the documentation describes: the
\* lowercased form of a str or bytes key, any other key unchanged.
normal_form(k) == IF has_lower(k) THEN lower(k) ELSE k

\* The values of the map, in iteration order.
values(w) == [i \in 1..Len(w) |-> w[i].val]

\* The positions of the entries that k, or a key differing from it in case only, names.
positions(w, k) == {i \in 1..Len(w) : normal_form(iter(w)[i]) = normal_form(k)}

\* The sequence s without its i-th element.
without(s, i) == [j \in 1..(Len(s) - 1) |-> IF j < i THEN s[j] ELSE s[j + 1]]

\* The step is a call of op that returned normally.
Returned(op) == last'.op = op /\ last'.err = None /\ vars' # vars

(***************************************************************************)
(* C1: for str or bytes keys k1, k2 with equal lowercase forms and every   *)
(* value v, after set(k1, v) get(k2) returns v; and setting k2 on the map  *)
(* that holds k1 alone leaves a map of length 1.                           *)
(***************************************************************************)
C1_GetAfterSet ==
    (last.op = "set" /\ last.err = None) =>
        \A k2 \in family :
            (has_lower(k2) /\ lower(k2) = lower(last.key)) =>
                /\ getitem(wrapped, k2).err = None
                /\ getitem(wrapped, k2).res = last.val

C1_BothSet ==
    (/\ last.op = "set" /\ last.err = None /\ len(wrapped) = 1
     /\ Returned("set")
     /\ lower(last'.key) = lower(last.key)) => len(wrapped') = 1

C1_SetGet == [](C1_GetAfterSet) /\ [][C1_BothSet]_vars

\* k1 was set, and then a k2 that differs from it in case only.
C1_Witness ==
    /\ last.op = "set" /\ last.err = None
    /\ len(wrapped) = 1
    /\ iter(wrapped)[1] # last.key
    /\ values(wrapped)[1] = last.val

(***************************************************************************)
(* C2: a key that is neither str nor bytes bypasses normalization:         *)
(* set(42, v) succeeds and leaves exactly one entry for 42, with value v.  *)
(***************************************************************************)
C2_NonStringKeys ==
    (last.op = "set" /\ ~has_lower(last.key)) =>
        /\ last.err = None
        /\ \E i \in 1..Len(wrapped) :
              /\ wrapped[i] = [key |-> map_key(last.key), val |-> last.val]
              /\ \A j \in 1..Len(wrapped) : wrapped[j].key = map_key(last.key) => j = i

(***************************************************************************)
(* C3: the map holds at most one entry per lowercase form of a str or      *)
(* bytes key, and its length is the number of distinct normalized keys.    *)
(***************************************************************************)
C3_OneEntryPerKey ==
    /\ \A i, j \in 1..Len(wrapped) :
          normal_form(iter(wrapped)[i]) = normal_form(iter(wrapped)[j]) => i = j
    /\ len(wrapped) = Cardinality({normal_form(iter(wrapped)[i]) : i \in 1..Len(wrapped)})

\* A key was set that differs in case only from a key of the map.
C3_Witness ==
    /\ last.op = "set" /\ last.err = None
    /\ len(wrapped) >= 2
    /\ \E i \in 1..Len(wrapped) :
          /\ iter(wrapped)[i] # last.key
          /\ lower(iter(wrapped)[i]) = lower(last.key)

(***************************************************************************)
(* C4: a set of a new key appends it; a set of a key that differs at most  *)
(* in case from a key of the map replaces that entry's value and leaves    *)
(* every entry's position and reported spelling as they were.              *)
(***************************************************************************)
C4_SetStep ==
    Returned("set") =>
        IF positions(wrapped, last'.key) = {}
        THEN /\ iter(wrapped') = Append(iter(wrapped), last'.key)
             /\ values(wrapped') = Append(values(wrapped), last'.val)
        ELSE /\ iter(wrapped') = iter(wrapped)
             /\ \A i \in 1..Len(wrapped) :
                   values(wrapped')[i] =
                       IF i \in positions(wrapped, last'.key)
                       THEN last'.val ELSE values(wrapped)[i]

C4_OrderPreserved == [][C4_SetStep]_vars

\* "B", "a", "C" were inserted in this order, and then "b" was set.
C4_Witness ==
    /\ iter(wrapped) = <<PyStr(<<"B">>), PyStr(<<"a">>), PyStr(<<"C">>)>>
    /\ last.op = "set" /\ last.err = None
    /\ last.key = PyStr(<<"b">>)
    /\ values(wrapped)[1] = last.val

(***************************************************************************)
(* C5: delete(k) removes the entry and leaves the others in their order;   *)
(* a set(k', v) that follows it, with k' equal to k when lowercased, puts  *)
(* the entry last, under the spelling k', the others in their order.       *)
(***************************************************************************)
C5_Step ==
    /\ Returned("delete") =>
          \E i \in 1..Len(wrapped) :
              /\ positions(wrapped, last'.key) = {i}
              /\ iter(wrapped') = without(iter(wrapped), i)
              /\ values(wrapped') = without(values(wrapped), i)
    /\ (Returned("set") /\ last'.reins) =>
          /\ iter(wrapped') = Append(iter(wrapped), last'.key)
          /\ values(wrapped') = Append(values(wrapped), last'.val)

C5_ReinsertMovesToEnd == [][C5_Step]_vars

\* A key was deleted from a map of several entries and set again.
C5_Witness ==
    /\ last.op = "set" /\ last.reins
    /\ len(wrapped) >= 3
    /\ iter(wrapped)[len(wrapped)] = last.key
    /\ values(wrapped)[len(wrapped)] = last.val

(***************************************************************************)
(* C6: every key iteration yields is a key as it was passed to the call    *)
(* that created its entry, never the wrapper and never the lowercased      *)
(* form; popitem returns the key iteration yielded at that end.            *)
(***************************************************************************)
C6_Step ==
    /\ \A i \in 1..Len(wrapped') :
          LET k == iter(wrapped')[i]
              args == last'.items \o last'.kw
          IN /\ ~isinstance_CaseInsensitiveKey(k)
             /\ \/ \E j \in 1..Len(wrapped) : iter(wrapped)[j] = k
                \/ /\ last'.op = "set"
                   /\ k = last'.key
                   /\ positions(wrapped, k) = {}
                \/ /\ last'.op \in {"construct", "fromkeys"}
                   /\ \E m \in 1..Len(args) :
                         /\ args[m].key = k
                         /\ \A n \in 1..(m - 1) :
                               normal_form(args[n].key) # normal_form(k)
    /\ Returned("popitem") =>
          last'.rkey = iter(wrapped)[IF last'.flag THEN Len(wrapped) ELSE 1]

C6_OriginalKeys == [][C6_Step]_vars

\* popitem returned a key that is not its own lowercased form.
C6_Witness ==
    /\ last.op = "popitem" /\ last.err = None
    /\ last.rkey # lower(last.rkey)

(***************************************************************************)
(* Helpers of the properties of cached.                                    *)
(***************************************************************************)
IsFunctionEntry(e) == e.w = 0
IsFirstWrapperEntry(e) == e.w = 1

\* The invocations of the function, and the calls of the first wrapper.
function_log == SelectSeq(log, IsFunctionEntry)
first_wrapper_log == SelectSeq(log, IsFirstWrapperEntry)

\* Only the first wrapper, made for a plain function, has been called.
OnlyFirstWrapper ==
    /\ fattr = Absent
    /\ \A i \in 1..Len(log) : log[i].w \in {0, 1}

(***************************************************************************)
(* C7: once a call of a wrapper has returned a value r, every later call   *)
(* of that wrapper returns r and does not invoke the wrapped function; a   *)
(* counting function wrapped and called three times returns 1 each time    *)
(* and is invoked once.                                                    *)
(***************************************************************************)
C7_LaterCalls ==
    \A i, j \in 1..Len(log) :
        (i < j /\ log[i].w > 0 /\ log[j].w = log[i].w /\ log[i].res # Raised) =>
            (log[j].res = log[i].res /\ ~log[j].invoked)

C7_Counting ==
    (/\ OnlyFirstWrapper
     /\ ncalls = 3
     /\ \A i \in 1..Len(function_log) : function_log[i].res.k = "int") =>
        /\ \A i \in 1..Len(first_wrapper_log) : first_wrapper_log[i].res = IntVal(1)
        /\ counter = 1

C7_AtMostOnce == C7_LaterCalls /\ C7_Counting

\* The wrapper of a counting function was called three times.
C7_Witness ==
    /\ OnlyFirstWrapper
    /\ ncalls = 3
    /\ Len(first_wrapper_log) = 3
    /\ Len(function_log) = 1
    /\ function_log[1].res = IntVal(1)

(***************************************************************************)
(* C8: when the wrapped function fails, the wrapper call fails with the    *)
(* same failure and nothing is cached: the next call of the wrapper        *)
(* invokes the function again.  For a function that fails on its first     *)
(* call and succeeds on its second, the first wrapper call fails, the      *)
(* second succeeds, the third returns the same result, and the function    *)
(* is invoked twice in all.                                                *)
(***************************************************************************)
\* A wrapper call that invokes the wrapped function ends as that invocation does.
C8_Propagates ==
    \A j \in 1..Len(log) :
        (log[j].w > 0 /\ log[j].invoked) =>
            /\ j > 1
            /\ log[j - 1].w = wrappers[log[j].w].target
            /\ log[j].res = log[j - 1].res

\* After a failed call nothing is cached, and the next call invokes again.
C8_Retries ==
    /\ \A i, j \in 1..Len(log) :
          (/\ i < j /\ log[i].w > 0 /\ log[j].w = log[i].w
           /\ \A m \in (i + 1)..(j - 1) : log[m].w # log[i].w
           /\ log[i].res = Raised) => log[j].invoked
    /\ \A i \in 1..Len(log) :
          (/\ log[i].w > 0
           /\ log[i].res = Raised
           /\ \A m \in (i + 1)..Len(log) : log[m].w # log[i].w) =>
              wrappers[log[i].w].attr = Absent

C8_FailsThenSucceeds ==
    (/\ OnlyFirstWrapper
     /\ ncalls = 3
     /\ Len(function_log) >= 2
     /\ function_log[1].res = Raised
     /\ function_log[2].res # Raised) =>
        /\ first_wrapper_log =
              <<Entry(1, Raised, TRUE), Entry(1, function_log[2].res, TRUE),
                Entry(1, function_log[2].res, FALSE)>>
        /\ counter = 2

C8_RetryOnFailure == C8_Propagates /\ C8_Retries /\ C8_FailsThenSucceeds

\* The function failed, then succeeded, and the wrapper was called a third time.
C8_Witness ==
    /\ OnlyFirstWrapper
    /\ ncalls = 3
    /\ Len(function_log) = 2
    /\ function_log[1].res = Raised
    /\ function_log[2].res = IntVal(2)
    /\ first_wrapper_log[3] = Entry(1, IntVal(2), FALSE)

(***************************************************************************)
(* C9: get(k) and delete(k) fail with KeyNotFound (KeyError) exactly when  *)
(* no entry has the normalized form of k; after a successful delete(k),    *)
(* get(k') fails with KeyNotFound for every k' equal to k when lowercased. *)
(***************************************************************************)
C9_Step ==
    (last'.op \in {"get", "delete"} /\ vars' # vars) =>
        (last'.err = "KeyError" <=> positions(wrapped, last'.key) = {})

C9_AfterDelete ==
    (last.op = "delete" /\ last.err = None) =>
        \A k \in family :
            normal_form(k) = normal_form(last.key) => getitem(wrapped, k).err = "KeyError"

C9_KeyNotFound == [](C9_AfterDelete) /\ [][C9_Step]_vars

\* What holds of the code: the same, for str and bytes keys.
C9_StrBytesStep == has_lower(last'.key) => C9_Step
C9_ForStrBytes == [](C9_AfterDelete) /\ [][C9_StrBytesStep]_vars

(***************************************************************************)
(* C10: fromkeys over a key sequence builds a map in which every distinct  *)
(* normalized key appears once, at the position and under the spelling of  *)
(* its first occurrence, mapped to the shared value.                       *)
(***************************************************************************)
RECURSIVE first_occurrences(_, _)
first_occurrences(keys, seen) ==
    IF keys = << >> THEN << >>
    ELSE IF normal_form(Head(keys)) \in seen
         THEN first_occurrences(Tail(keys), seen)
         ELSE <<Head(keys)>> \o
              first_occurrences(Tail(keys), seen \cup {normal_form(Head(keys))})

fromkeys_keys == [i \in 1..Len(last.items) |-> last.items[i].key]

C10_FromKeys ==
    last.op = "fromkeys" =>
        /\ last.err = None
        /\ iter(wrapped) = first_occurrences(fromkeys_keys, {})
        /\ \A i \in 1..Len(wrapped) : values(wrapped)[i] = last.val

\* What holds of the code: the same, for sequences of str and bytes keys.
C10_ForStrBytes ==
    (\A i \in 1..Len(fromkeys_keys) : has_lower(fromkeys_keys[i])) => C10_FromKeys

(***************************************************************************)
(* C11: the constructor builds the map that results from an empty map by   *)
(* set(key, value) for each positional pair in order and then for each     *)
(* named pair: an entry has the position and spelling of the first pair    *)
(* with its normalized key, and the value of the last one.                 *)
(***************************************************************************)
RECURSIVE sets_in_order(_, _)
sets_in_order(w, pairs) ==
    IF pairs = << >> THEN Return(w, NoKey, None)
    ELSE LET r == setitem(w, Head(pairs).key, Head(pairs).val) IN
         IF r.err # None THEN r ELSE sets_in_order(r.w, Tail(pairs))

construct_args == last.items \o last.kw

\* The value of the last pair whose key has the normalized form of k.
last_value(pairs, k) ==
    pairs[CHOOSE m \in 1..Len(pairs) :
            /\ normal_form(pairs[m].key) = normal_form(k)
            /\ \A n \in (m + 1)..Len(pairs) :
                  normal_form(pairs[n].key) # normal_form(k)].val

C11_ConstructIsUpdate ==
    last.op = "construct" =>
        /\ last.err = sets_in_order(<< >>, construct_args).err
        /\ last.err = None =>
              /\ wrapped = sets_in_order(<< >>, construct_args).w
              /\ iter(wrapped) =
                    first_occurrences([i \in 1..Len(construct_args) |->
                                          construct_args[i].key], {})
              /\ \A i \in 1..Len(wrapped) :
                    values(wrapped)[i] = last_value(construct_args, iter(wrapped)[i])

\* A named pair overwrote the value of a positional pair spelled differently.
C11_Witness ==
    /\ last.op = "construct" /\ last.err = None
    /\ Len(last.items) >= 1 /\ Len(last.kw) >= 1
    /\ len(wrapped) = 1
    /\ iter(wrapped)[1] = last.items[1].key
    /\ last.kw[Len(last.kw)].key # last.items[1].key
    /\ values(wrapped)[1] = last.kw[Len(last.kw)].val
    /\ values(wrapped)[1] # last.items[1].val

(***************************************************************************)
(* C12: move_to_end(k, to_end) moves the entry that k names to the end     *)
(* (to the start when to_end is false) and leaves its value, its spelling, *)
(* the length and the order and values of the other entries as they were;  *)
(* it fails with KeyNotFound (KeyError) when no entry matches k.           *)
(***************************************************************************)
C12_Step ==
    (last'.op = "move_to_end" /\ vars' # vars) =>
        IF positions(wrapped, last'.key) = {}
        THEN last'.err = "KeyError"
        ELSE \E i \in 1..Len(wrapped) :
                /\ positions(wrapped, last'.key) = {i}
                /\ last'.err = None
                /\ iter(wrapped') =
                      IF last'.flag
                      THEN Append(without(iter(wrapped), i), iter(wrapped)[i])
                      ELSE <<iter(wrapped)[i]>> \o without(iter(wrapped), i)
                /\ values(wrapped') =
                      IF last'.flag
                      THEN Append(without(values(wrapped), i), values(wrapped)[i])
                      ELSE <<values(wrapped)[i]>> \o without(values(wrapped), i)

C12_MoveToEnd == [][C12_Step]_vars

\* What holds of the code: the same, for str and bytes keys.
C12_StrBytesStep == has_lower(last'.key) => C12_Step
C12_ForStrBytes == [][C12_StrBytesStep]_vars

\* An entry in the middle of the map was moved to the start.
C12_StrBytesWitness ==
    /\ last.op = "move_to_end" /\ last.err = None /\ ~last.flag
    /\ len(wrapped) >= 3
    /\ normal_form(iter(wrapped)[1]) = normal_form(last.key)
    /\ iter(wrapped)[1] # last.key

(***************************************************************************)
(* C13: popitem(from_end) on a non-empty map removes the last entry of the *)
(* iteration order (the first when from_end is false), returns its         *)
(* original key and its value, and leaves the other entries and their      *)
(* order as they were; on an empty map it fails with KeyError.             *)
(***************************************************************************)
C13_Step ==
    (last'.op = "popitem" /\ vars' # vars) =>
        IF len(wrapped) = 0
        THEN last'.err = "KeyError"
        ELSE LET i == IF last'.flag THEN len(wrapped) ELSE 1 IN
             /\ last'.err = None
             /\ last'.rkey = iter(wrapped)[i]
             /\ last'.res = values(wrapped)[i]
             /\ len(wrapped') = len(wrapped) - 1
             /\ iter(wrapped') = without(iter(wrapped), i)
             /\ values(wrapped') = without(values(wrapped), i)

C13_PopItem == [][C13_Step]_vars

\* The first of several entries was popped.
C13_Witness ==
    /\ last.op = "popitem" /\ last.err = None /\ ~last.flag
    /\ len(wrapped) >= 2
    /\ positions(wrapped, last.rkey) = {}

\* popitem failed on the empty map.
C13_EmptyWitness == last.op = "popitem" /\ last.err = "KeyError" /\ len(wrapped) = 0

(***************************************************************************)
(* C14: two CaseInsensitiveKey objects are equal exactly when their        *)
(* lowercased forms are equal, which is an equivalence relation; equal     *)
(* keys have equal hashes; a key never equals a plain string or a value    *)
(* of another type.                                                        *)
(***************************************************************************)
\* The key objects of this run: those the map holds and those the methods
\* make of their arguments.
key_objects ==
    {wrapped[i].key : i \in 1..Len(wrapped)} \cup
    {CaseInsensitiveKey(k) : k \in {x \in family : has_lower(x)}}

C14_KeyEquality ==
    /\ \A a, b \in key_objects :
          /\ CaseInsensitiveKey_eq(a, b) <=> lower(a.wrapped) = lower(b.wrapped)
          /\ CaseInsensitiveKey_eq(a, a)
          /\ CaseInsensitiveKey_eq(a, b) => CaseInsensitiveKey_eq(b, a)
          /\ CaseInsensitiveKey_eq(a, b) =>
                CaseInsensitiveKey_hash(a) = CaseInsensitiveKey_hash(b)
          /\ \A c \in key_objects :
                (CaseInsensitiveKey_eq(a, b) /\ CaseInsensitiveKey_eq(b, c)) =>
                    CaseInsensitiveKey_eq(a, c)
    /\ \A a \in key_objects :
          \A k \in family \cup {a.wrapped, a.normalized} : ~CaseInsensitiveKey_eq(a, k)

\* A lookup found an entry stored under another spelling, among keys of which
\* two have the same hash and are not equal.
C14_Witness ==
    /\ last.op = "get" /\ last.err = None
    /\ \E i \in 1..Len(wrapped) :
          /\ wrapped[i].key.wrapped # last.key
          /\ CaseInsensitiveKey_eq(wrapped[i].key, CaseInsensitiveKey(last.key))
    /\ \E a, b \in key_objects :
          /\ CaseInsensitiveKey_hash(a) = CaseInsensitiveKey_hash(b)
          /\ ~CaseInsensitiveKey_eq(a, b)

(***************************************************************************)
(* C15: a get, delete or move_to_end that fails with KeyNotFound           *)
(* (KeyError), and a popitem that fails on the empty map, leave the keys,  *)
(* their spellings, their order, their values and the length as they were. *)
(***************************************************************************)
C15_Step ==
    (/\ vars' # vars
     /\ \/ last'.op \in {"get", "delete", "move_to_end"} /\ last'.err = "KeyError"
        \/ last'.op = "popitem" /\ last'.err # None) =>
        /\ iter(wrapped') = iter(wrapped)
        /\ values(wrapped') = values(wrapped)
        /\ len(wrapped') = len(wrapped)
        /\ wrapped' = wrapped

C15_FailureChangesNothing == [][C15_Step]_vars

\* A delete failed on a map that holds entries.
C15_Witness ==
    /\ last.op = "delete" /\ last.err = "KeyError"
    /\ len(wrapped) >= 2

(***************************************************************************)
(* C16: a None that the wrapped function returns is cached like any other  *)
(* result: the wrapper holds it, and every later call returns None and     *)
(* does not invoke the function.                                           *)
(***************************************************************************)
C16_CachesNone ==
    /\ \A i \in 1..Len(log) :
          (log[i].w > 0 /\ log[i].res = NoneVal) =>
              /\ wrappers[log[i].w].attr = NoneVal
              /\ wrappers[log[i].w].attr # Absent
    /\ \A i, j \in 1..Len(log) :
          (i < j /\ log[i].w > 0 /\ log[j].w = log[i].w /\ log[i].res = NoneVal) =>
              log[j] = Entry(log[i].w, NoneVal, FALSE)

\* The function returned None, and its wrapper was called again.
C16_Witness ==
    /\ OnlyFirstWrapper
    /\ Len(first_wrapper_log) >= 2
    /\ first_wrapper_log[1] = Entry(1, NoneVal, TRUE)
    /\ first_wrapper_log[2] = Entry(1, NoneVal, FALSE)
    /\ counter = 1

(***************************************************************************)
(* C17: a new wrapper starts with an empty cache, whatever it wraps: its   *)
(* first call invokes the wrapped callable, and it never returns a value   *)
(* that an invocation made through this same wrapper did not return.       *)
(***************************************************************************)
C17_FreshCache ==
    /\ \A w \in 1..Len(wrappers) :
          (\A i \in 1..Len(log) : log[i].w # w) => wrappers[w].attr = Absent
    /\ \A j \in 1..Len(log) :
          (log[j].w > 0 /\ \A i \in 1..(j - 1) : log[i].w # log[j].w) => log[j].invoked
    /\ \A j \in 1..Len(log) :
          (log[j].w > 0 /\ ~log[j].invoked) =>
              \E i \in 1..(j - 1) :
                  /\ log[i].w = log[j].w
                  /\ log[i].invoked
                  /\ log[i].res = log[j].res

\* The same claim for a plain function: the case of a wrapper made of a
\* wrapper that has cached a result.
C17_PlainFunction == fattr = Absent => C17_FreshCache

\* What holds of the code: the claim, for wrappers whose target had no
\* cached_results attribute when they were made.
C17_EmptyTargets ==
    (/\ fattr = Absent
     /\ \A w \in 1..Len(wrappers) : wrappers[w].target = 0) => C17_FreshCache

====
